---- MODULE Spec2Model ----
(***************************************************************************)
(* Model of swsurface: the software-rendered swapchain of a window.        *)
(*                                                                         *)
(* One `Surface` is modelled, together with the backend it was built for   *)
(* (Wayland, X11, Windows/GDI, macOS/CGL).  The Wayland backend keeps a    *)
(* box of `Image`s, each with a `presenting` flag cleared by the           *)
(* `wl_buffer` release handler; the other three keep one buffer in a       *)
(* `RefCell` and have no completion events.  A panic is modelled as the    *)
(* operation returning `Panic` with exactly the assignments that the code  *)
(* performed before the panicking statement.                               *)
(***************************************************************************)
EXTENDS Integers, Naturals, Sequences, FiniteSets, TLC

(***************************************************************************)
(* Bounds of the model.                                                    *)
(***************************************************************************)
\* Largest `Config::image_count` explored.
MaxImages == 2
\* Width, in bits, of the modelled `usize` / `u32` (a scaled-down 32-bit target).
WordBits == 8
\* Largest number of disarmed-to-armed transitions of the notifier explored.
MaxArms == 2
\* Largest number of `poll_next_image() == None` results between two callbacks.
MaxNone == 2
\* Value at which the count of consecutive polls saturates.
MaxRun == 2
\* Largest size, in bytes, of a `Buffer` studied on its own.
MaxBuf == 3
\* Largest number of contexts built, and of surfaces attached to them.
MaxContexts == 2
MaxSurfaces == 2

(***************************************************************************)
(* Option<T> and the results of the operations.                            *)
(***************************************************************************)
None == << >>
Some(x) == << x >>
is_some(o) == o # None
unwrap(o) == o[1]

RetSome(i) == [tag |-> "Some", val |-> i]
RetNone == [tag |-> "None", val |-> 0]
RetUnit == [tag |-> "Unit", val |-> 0]
RetView(len) == [tag |-> "View", val |-> len]
RetPanic == [tag |-> "Panic", val |-> 0]
RetInit == [tag |-> "Init", val |-> 0]

(***************************************************************************)
(* Machine integers.                                                       *)
(***************************************************************************)
usize_max == 2 ^ WordBits - 1
i32_max == 2 ^ (WordBits - 1) - 1

checked_add(a, b) == IF a + b > usize_max THEN None ELSE Some(a + b)
checked_mul(a, b) == IF a * b > usize_max THEN None ELSE Some(a * b)

RECURSIVE BitAnd(_, _)
BitAnd(a, b) ==
    IF a = 0 \/ b = 0 THEN 0
    ELSE (IF a % 2 = 1 /\ b % 2 = 1 THEN 1 ELSE 0) + 2 * BitAnd(a \div 2, b \div 2)

BitNot(a) == usize_max - a

is_power_of_two(x) == x > 0 /\ BitAnd(x, x - 1) = 0

(***************************************************************************)
(* align.rs                                                                *)
(***************************************************************************)
\* Mutant: every non-zero value is accepted.
Align_new_any_nonzero(x) == IF x > 0 THEN Some(x - 1) ELSE None

\* `Align::new`: the stored value is the mask `x - 1`.
Align_new(x) == IF x > 0 /\ is_power_of_two(x) THEN Some(x - 1) ELSE None

\* Mutant: `wrapping_add` in place of `checked_add`.
align_up_wrapping(self0, x) ==
    Some(BitAnd((x + self0) % (2 ^ WordBits), BitNot(self0)))

\* Mutant: the whole alignment is added, not the mask.
align_up_full_step(self0, x) ==
    LET s == checked_add(x, self0 + 1)
    IN  IF is_some(s) THEN Some(BitAnd(unwrap(s), BitNot(self0))) ELSE None

\* `Align::align_up`, `self0` being the stored mask.
align_up(self0, x) ==
    LET s == checked_add(x, self0)
    IN  IF is_some(s) THEN Some(BitAnd(unwrap(s), BitNot(self0))) ELSE None

(***************************************************************************)
(* buffer.rs                                                               *)
(***************************************************************************)
\* Values of a byte: zero and one that is not zero.
Bytes == {0, 255}

\* Every content of n bytes of memory.
Mem(n) == [1 .. n -> Bytes]

\* `alloc(layout)`: the memory returned is not initialised.
alloc(size) == Mem(size)

\* `realloc(ptr, layout, new_size)`: the contents up to the lesser of the two
\* sizes are kept, the rest is not initialised.
realloc(bytes, new_size) ==
    {m \in Mem(new_size) :
        \A i \in 1 .. new_size : i <= Len(bytes) => m[i] = bytes[i]}

\* `ptr.offset(offset).write_bytes(0, count)`
write_bytes_0(m, offset, count) ==
    [i \in 1 .. Len(m) |-> IF offset < i /\ i <= offset + count THEN 0 ELSE m[i]]

\* `Buffer::new(layout)`, p being what `alloc` returned.
Buffer_new(p, size, align) ==
    [bytes |-> write_bytes_0(p, 0, size), align |-> align]

\* Mutant: the bytes added by a growing `resize` are not cleared.
Buffer_resize_to_no_fill(self, p, new_size) ==
    [bytes |-> p, align |-> self.align]

\* `Buffer::resize(new_size)`, p being what `realloc` returned.
Buffer_resize_to(self, p, new_size) ==
    [bytes |-> IF new_size > Len(self.bytes)
               THEN write_bytes_0(p, Len(self.bytes), new_size - Len(self.bytes))
               ELSE p,
     align |-> self.align]

(***************************************************************************)
(* Inputs.                                                                 *)
(***************************************************************************)
Backends == {"wayland", "x11", "windows", "cgl"}
Format == {"Argb8888", "Xrgb8888"}
\* `Config::scanline_align` values given to `Align::new(..).unwrap()`.
ScanlineAligns == {1, 8}
\* `[width, height]` arguments: two that fit, and one for each way to fail
\* (a zero element, an element above `i32::MAX`, `4 * width` overflowing, a
\* stride above `i32::MAX`, `stride * height` overflowing).
Extents == {<<1, 1>>, <<1, 20>>, <<0, 1>>, <<1, 0>>,
            <<i32_max + 1, 1>>, <<1, i32_max + 1>>,
            <<usize_max \div 4 + 1, 1>>, <<i32_max \div 4 + 1, 1>>,
            <<5, usize_max \div 20 + 1>>}

VARIABLES
    backend,          \* which `SurfaceImpl` variant was constructed
    scanline_align,   \* `Align` (the mask) of the surface
    images,           \* Wayland: `State::images`
    image,            \* X11 / CGL / Windows: length of `SurfaceImpl::image`
    borrowed,         \* `RefCell` borrow flag of each image: a lock view is alive
    enable_ready_cb,  \* Wayland: `State::enable_ready_cb`
    image_info,       \* `image_info: Cell<ImageInfo>`
    op,               \* name of the last operation or event
    ret,              \* what the last operation returned
    cbCalls,          \* number of invocations of `ready_cb` so far
    armCount,         \* number of disarmed-to-armed transitions so far
    pendingNone,      \* `poll_next_image() == None` results since the notifier was last armed
    lastPoll,         \* result of the last poll with no later present / release
    pollRun,          \* number of polls with no later present / release (saturating)
    al_arg,           \* argument of the last `Align::new`
    al_self,          \* what that `Align::new` returned: `Option<Align>` (the mask)
    al_x,             \* argument of the last `align_up` on `al_self`
    al_out,           \* what that `align_up` returned
    buffer,           \* a `Buffer`: the bytes behind `ptr` and `layout.align()`
    resized,          \* the bytes before the last `Buffer::resize` and its `new_size`
    sw,               \* the `SwWindow`: its two `Option` fields and the position in its life
    heap,             \* which of the `Surface`, its state and the `Window` still exist
    config,           \* the `Config` the surface was made with
    ctxs,             \* Wayland: every `ContextImpl` built so far
    srfs,             \* Wayland: every surface `State` made from them so far
    wnd_id,           \* Wayland: `State::wnd_id`
    cb,               \* the invocation of `ready_cb` that is running, if any
    wire,             \* Wayland: the `wl_buffer`s of the images as the compositor has them
    peer,             \* the state of the other surface of the context, if there is one
    ready_cb          \* the function held by the `ContextBuilder` and by the context

vars == << backend, scanline_align, images, image, borrowed, enable_ready_cb,
           image_info, op, ret, cbCalls, armCount, pendingNone, lastPoll, pollRun,
           al_arg, al_self, al_x, al_out, buffer, resized, sw, heap, config,
           ctxs, srfs, wnd_id, cb, wire, peer, ready_cb >>

\* The `Align` under test and its last call.
al == << al_arg, al_self, al_x, al_out >>

\* The `Buffer` under test and its last call.
buf == << buffer, resized >>

\* The surface, but for the name of the last operation.
surface == << config, backend, scanline_align, images, image, borrowed, enable_ready_cb,
              image_info, ret, cbCalls, armCount, pendingNone, lastPoll, pollRun >>

\* The `SwWindow` around the surface and the objects it owns.
life == << sw, heap >>

\* The contexts of the process and the surfaces attached to them.
conn == << ctxs, srfs >>

\* The window of the surface and the ready callback it is running.
notif == << wnd_id, cb >>

\* The compositor, the other surface and the function given to the builder.
beside == << wire, peer, ready_cb >>

\* What the operations of a live surface leave alone.
apart == << al, buf, life, config, conn, notif, beside >>

hist == << cbCalls, armCount, pendingNone >>

(***************************************************************************)
(* lib.rs: ImageInfo                                                       *)
(***************************************************************************)
ImageInfo(extent, stride, format) ==
    [extent |-> extent, stride |-> stride, format |-> format]

ImageInfo_default == ImageInfo(<<0, 0>>, 0, "Argb8888")

(***************************************************************************)
(* Construction.                                                           *)
(***************************************************************************)
\* `SwWindow::new`: both fields are `Some`, and the surface, the state it
\* owns and the window exist.
SwWindow_new ==
    /\ sw = [surface |-> TRUE, window |-> TRUE, pc |-> "live"]
    /\ heap = [Surface |-> "alive", State |-> "alive", Window |-> "alive"]

\* No context is studied.
ContextIdle ==
    /\ ctxs = << >>
    /\ srfs = << >>

\* No `Buffer` is studied on its own: the variables hold the one-byte buffer
\* that `Buffer::from_size_align(1, _)` makes.
BufferIdle ==
    /\ buffer = Buffer_new(<<0>>, 1, 1)
    /\ resized = [old |-> << >>, align |-> 1, new_size |-> 1]

\* wayland.rs `SurfaceImpl::new`: every image starts with no memory pool.
Image_new == [mem |-> None, presenting |-> FALSE]

\* Length of `image` after `SurfaceImpl::new` of the single-buffer backends.
image_new(b) == IF b = "windows" THEN 0 ELSE 1

\* Mutant: only the images that were given storage are counted.
num_images_with_storage ==
    IF backend = "wayland" THEN Cardinality({i \in DOMAIN images : images[i].mem # None})
    ELSE 1

\* `num_images()`
num_images == IF backend = "wayland" THEN Cardinality(DOMAIN images) ELSE 1

Slots == 0 .. num_images - 1

\* `SurfaceImpl::new` of each backend with `config.image_count = n`: only
\* Wayland makes that many images.
SurfaceImpl_new(n) ==
    /\ config = [image_count |-> n]
    /\ images = IF backend = "wayland" THEN [i \in 0 .. n - 1 |-> Image_new]
                ELSE [i \in {} |-> Image_new]
    /\ borrowed = IF backend = "wayland" THEN [i \in 0 .. n - 1 |-> FALSE]
                  ELSE [i \in {0} |-> FALSE]

\* `ContextImpl::TAKES_READY_CB` of the backend: `true` in unix.rs, `false`
\* for `NullContextImpl`.
TAKES_READY_CB(b) == b \in {"wayland", "x11"}

\* `ContextBuilder::new`: the callback is `|_| {}`.
ContextBuilder_new == [ready_cb |-> "noop"]

\* Mutant: the builder stores the function on every backend.
with_ready_cb_always(b, self, f) == [self EXCEPT !.ready_cb = f]

\* `ContextBuilder::with_ready_cb(self, cb)`
with_ready_cb(b, self, f) ==
    IF TAKES_READY_CB(b) THEN [self EXCEPT !.ready_cb = f] ELSE self

\* What `ContextImpl::new(builder)` keeps of `builder.ready_cb`: the Wayland
\* context moves it into an `Rc`; `ContextImpl::X11` and `NullContextImpl`
\* have no field and drop the builder.
ContextImpl_ready_cb(b, builder) ==
    IF b = "wayland" THEN Some(builder.ready_cb) ELSE None

\* `ContextBuilder::new(..).with_ready_cb(f).build()`: the function the
\* builder held when it was consumed and the one the context holds.
ContextBuilder_build(b, f) ==
    LET builder == with_ready_cb(b, ContextBuilder_new, f)
    IN  [builder |-> builder.ready_cb, ctx |-> ContextImpl_ready_cb(b, builder)]

\* No `wl_buffer` was made from the pool of any image.
Wire_new ==
    [live |-> [i \in DOMAIN images |-> 0],
     held |-> [i \in DOMAIN images |-> FALSE],
     reqs |-> << >>,
     destroyed_held |-> FALSE]

\* The surface is the only one of its context, nothing was presented, and
\* the application gave its function to the builder.
Alone ==
    /\ wire = Wire_new
    /\ peer = None
    /\ ready_cb = ContextBuilder_build(backend, "app")

\* `WindowId`s.
WindowIds == {"w1", "w2"}

\* No `ready_cb` is running.
cb_idle == [running |-> FALSE, arg |-> "none", image |-> 0]

\* A new surface.  `any_count` tells whether the single-buffer backends are
\* given any `image_count` or only one; `ids` are the ids its window may have.
Start(any_count, ids) ==
    /\ backend \in Backends
    /\ al_arg \in ScanlineAligns
    /\ al_self = Align_new(al_arg)
    /\ al_x = 0
    /\ al_out = None
    /\ scanline_align = unwrap(al_self)
    /\ BufferIdle
    /\ SwWindow_new
    /\ ContextIdle
    /\ wnd_id \in ids
    /\ cb = cb_idle
    /\ \E n \in 0 .. MaxImages :
          /\ SurfaceImpl_new(n)
          /\ (backend # "wayland" /\ ~any_count => n = 1)
    /\ image = image_new(backend)
    /\ enable_ready_cb = FALSE
    /\ image_info = ImageInfo_default
    /\ ret = RetInit
    /\ cbCalls = 0
    /\ armCount = 0
    /\ pendingNone = 0
    /\ lastPoll = RetInit
    /\ pollRun = 0
    /\ Alone
    /\ op = "new"

\* The single-buffer backends are given an `image_count` of one.
Init == Start(FALSE, {"w1"})

(***************************************************************************)
(* Geometry shared by the backends that align scanlines.                   *)
(***************************************************************************)
\* `extent_usize[0].checked_mul(4).and_then(|x| scanline_align.align_up(x))`
stride_of(extent) ==
    LET m == checked_mul(extent[1], 4)
    IN  IF is_some(m) THEN align_up(scanline_align, unwrap(m)) ELSE None

\* `stride.checked_mul(extent[1] as usize)`
size_of(extent) ==
    LET st == stride_of(extent)
    IN  IF is_some(st) THEN checked_mul(unwrap(st), extent[2]) ELSE None

\* The assertions and `expect`s on the value range that precede any mutation.
extent_panics(extent) ==
    \/ extent[1] = 0
    \/ extent[2] = 0
    \/ extent[1] > i32_max
    \/ extent[2] > i32_max
    \/ ~is_some(stride_of(extent))
    \/ unwrap(stride_of(extent)) > i32_max

(***************************************************************************)
(* unix/wayland.rs                                                         *)
(***************************************************************************)
wl_supported_formats == {"Argb8888"}

\* `mem.try_borrow_mut().expect("some images are locked")` over all images.
wl_some_images_are_locked == \E i \in DOMAIN images : borrowed[i]

\* Mutant: `update_surface` that does not borrow the images first.
wl_update_surface_panics_no_borrow(extent, format) ==
    \/ extent[1] = 0
    \/ extent[2] = 0
    \/ extent_panics(extent)
    \/ ~is_some(size_of(extent))

\* Everything that makes `update_surface` panic before the resize loop.
wl_update_surface_panics(extent, format) ==
    \/ extent[1] = 0
    \/ extent[2] = 0
    \/ wl_some_images_are_locked
    \/ extent_panics(extent)
    \/ ~is_some(size_of(extent))

\* The pool of image i after `get_or_insert_with` and `resize(size)`.
wl_resized(m, size) ==
    Some([pool |-> size, buffer |-> IF m = None THEN None ELSE unwrap(m).buffer])

\* Mutant: a reconfiguration cancels the pending notification.
wl_update_surface_disarms(extent, format, fail_at, how) ==
    LET n == Cardinality(DOMAIN images)
        size == unwrap(size_of(extent))
    IN  IF wl_update_surface_panics(extent, format)
        THEN /\ ret' = RetPanic
             /\ UNCHANGED << images, image, borrowed, enable_ready_cb, image_info >>
        ELSE /\ images' = [i \in DOMAIN images |->
                   [images[i] EXCEPT !.mem = wl_resized(images[i].mem, size)]]
             /\ image_info' = ImageInfo(extent, unwrap(stride_of(extent)), format)
             /\ ret' = RetUnit
             /\ enable_ready_cb' = FALSE
             /\ UNCHANGED << image, borrowed >>

\* `fail_at` is the image whose `MemPool::new` / `resize` fails (the number of
\* images if none does); `how` tells which of the two calls fails.
wl_update_surface(extent, format, fail_at, how) ==
    LET n == Cardinality(DOMAIN images)
        size == unwrap(size_of(extent))
    IN  IF wl_update_surface_panics(extent, format)
        THEN /\ ret' = RetPanic
             /\ UNCHANGED << images, image, borrowed, enable_ready_cb, image_info >>
        ELSE /\ images' = [i \in DOMAIN images |->
                   IF i < fail_at
                   THEN [images[i] EXCEPT !.mem = wl_resized(images[i].mem, size)]
                   ELSE IF i = fail_at /\ how = "resize" /\ images[i].mem = None
                   THEN [images[i] EXCEPT !.mem = Some([pool |-> 0, buffer |-> None])]
                   ELSE images[i]]
             /\ image_info' = IF fail_at = n
                              THEN ImageInfo(extent, unwrap(stride_of(extent)), format)
                              ELSE image_info
             /\ ret' = IF fail_at = n THEN RetUnit ELSE RetPanic
             /\ UNCHANGED << image, borrowed, enable_ready_cb >>

\* Mutant: the first image is returned whether or not it is being presented.
wl_position_first ==
    IF DOMAIN images = {} THEN None ELSE Some(0)

\* Mutant: images with a live lock view are skipped as well.
wl_position_unlocked ==
    LET avail == {i \in DOMAIN images : ~images[i].presenting /\ ~borrowed[i]}
    IN  IF avail = {} THEN None
        ELSE Some(CHOOSE i \in avail : \A j \in avail : i <= j)

\* Mutant: `rposition`, the last image that is not being presented.
wl_position_last ==
    LET avail == {i \in DOMAIN images : images[i].presenting = FALSE}
    IN  IF avail = {} THEN None
        ELSE Some(CHOOSE i \in avail : \A j \in avail : i >= j)

\* `images.iter().position(|image| image.presenting.get() == false)`
wl_position ==
    LET avail == {i \in DOMAIN images : images[i].presenting = FALSE}
    IN  IF avail = {} THEN None
        ELSE Some(CHOOSE i \in avail : \A j \in avail : i <= j)

\* Mutant: the poll enables the ready callback whatever it found.
wl_poll_next_image_always_arms ==
    LET result == wl_position
    IN  /\ enable_ready_cb' = TRUE
        /\ ret' = IF is_some(result) THEN RetSome(unwrap(result)) ELSE RetNone
        /\ UNCHANGED << images, image, borrowed, image_info >>

wl_poll_next_image ==
    LET result == wl_position
    IN  /\ enable_ready_cb' = IF is_some(result) THEN enable_ready_cb ELSE TRUE
        /\ ret' = IF is_some(result) THEN RetSome(unwrap(result)) ELSE RetNone
        /\ UNCHANGED << images, image, borrowed, image_info >>

\* Mutant: `lock_image` without the assertion on `presenting`.
wl_lock_image_panics_no_assert(i) ==
    \/ i \notin DOMAIN images
    \/ borrowed[i]
    \/ images[i].mem = None

\* The index check, the `assert_eq!` on `presenting`, `borrow_mut()` and the
\* `expect("surface is not initialized")` of `lock_image`.
wl_lock_image_panics(i) ==
    \/ i \notin DOMAIN images
    \/ images[i].presenting
    \/ borrowed[i]
    \/ images[i].mem = None

wl_lock_image(i) ==
    IF wl_lock_image_panics(i)
    THEN /\ ret' = RetPanic
         /\ UNCHANGED << images, image, borrowed, enable_ready_cb, image_info >>
    ELSE /\ borrowed' = [borrowed EXCEPT ![i] = TRUE]
         /\ ret' = RetView(unwrap(images[i].mem).pool)
         /\ UNCHANGED << images, image, enable_ready_cb, image_info >>

\* The index check, the `assert_eq!` on `presenting`, `try_borrow_mut()` and
\* the `expect("surface is not initialized")` of `present_image`.
wl_present_image_panics(i) ==
    \/ i \notin DOMAIN images
    \/ images[i].presenting
    \/ borrowed[i]
    \/ images[i].mem = None

\* Mutant: the old `wl_buffer` is taken out and the new one is not stored.
wl_present_image_drops_buffer(i) ==
    IF wl_present_image_panics(i)
    THEN /\ ret' = RetPanic
         /\ UNCHANGED << images, image, borrowed, enable_ready_cb, image_info >>
    ELSE /\ images' = [images EXCEPT
                ![i] = [mem |-> Some([pool |-> unwrap(images[i].mem).pool,
                                      buffer |-> None]),
                        presenting |-> TRUE]]
         /\ ret' = RetUnit
         /\ UNCHANGED << image, borrowed, enable_ready_cb, image_info >>

wl_present_image(i) ==
    IF wl_present_image_panics(i)
    THEN /\ ret' = RetPanic
         /\ UNCHANGED << images, image, borrowed, enable_ready_cb, image_info >>
    ELSE /\ images' = [images EXCEPT
                ![i] = [mem |-> Some([pool |-> unwrap(images[i].mem).pool,
                                      buffer |-> Some(1)]),
                        presenting |-> TRUE]]
         /\ ret' = RetUnit
         /\ UNCHANGED << image, borrowed, enable_ready_cb, image_info >>

\* Mutant: the handler reads the flag with `get()` and leaves it set.
wl_on_release_keeps_flag(i) ==
    /\ images' = [images EXCEPT ![i].presenting = FALSE]
    /\ enable_ready_cb' = enable_ready_cb
    /\ cbCalls' = IF enable_ready_cb THEN cbCalls + 1 ELSE cbCalls
    /\ UNCHANGED << image, borrowed, image_info >>

\* Mutant: the handler calls `ready_cb` without looking at the flag.
wl_on_release_always_calls(i) ==
    /\ images' = [images EXCEPT ![i].presenting = FALSE]
    /\ enable_ready_cb' = FALSE
    /\ cbCalls' = cbCalls + 1
    /\ UNCHANGED << image, borrowed, image_info >>

\* Mutant: the handler resets the flag and forgets to call `ready_cb`.
wl_on_release_no_call(i) ==
    /\ images' = [images EXCEPT ![i].presenting = FALSE]
    /\ enable_ready_cb' = FALSE
    /\ cbCalls' = cbCalls
    /\ UNCHANGED << image, borrowed, image_info >>

\* The `release` handler installed for image i by `update_surface`.
wl_on_release(i) ==
    /\ images' = [images EXCEPT ![i].presenting = FALSE]
    /\ enable_ready_cb' = FALSE
    /\ cbCalls' = IF enable_ready_cb THEN cbCalls + 1 ELSE cbCalls
    /\ UNCHANGED << image, borrowed, image_info >>

(***************************************************************************)
(* buffer.rs                                                               *)
(***************************************************************************)
\* `Buffer::resize`: the new layout has the requested size.
Buffer_resize(old_size, new_size) == new_size

(***************************************************************************)
(* unix/x11.rs                                                             *)
(***************************************************************************)
x11_supported_formats == {"Argb8888", "Xrgb8888"}

\* The assertions, the overflow checks and `self.image.borrow_mut()`.
x11_update_surface_panics(extent, format) ==
    \/ extent_panics(extent)
    \/ ~is_some(size_of(extent))
    \/ borrowed[0]

x11_update_surface(extent, format) ==
    IF x11_update_surface_panics(extent, format)
    THEN /\ ret' = RetPanic
         /\ UNCHANGED << images, image, borrowed, enable_ready_cb, image_info >>
    ELSE /\ image' = Buffer_resize(image, unwrap(size_of(extent)))
         /\ image_info' = ImageInfo(extent, extent[1] * 4, format)
         /\ ret' = RetUnit
         /\ UNCHANGED << images, borrowed, enable_ready_cb >>

x11_poll_next_image ==
    /\ ret' = RetSome(0)
    /\ UNCHANGED << images, image, borrowed, enable_ready_cb, image_info >>

\* Mutant: the buffer is handed out without `borrow_mut()` failing.
x11_lock_image_panics_no_borrow(i) == i # 0

\* `assert_eq!(i, 0)` and `self.image.borrow_mut()`.
x11_lock_image_panics(i) == i # 0 \/ borrowed[0]

x11_lock_image(i) ==
    IF x11_lock_image_panics(i)
    THEN /\ ret' = RetPanic
         /\ UNCHANGED << images, image, borrowed, enable_ready_cb, image_info >>
    ELSE /\ borrowed' = [borrowed EXCEPT ![0] = TRUE]
         /\ ret' = RetView(image)
         /\ UNCHANGED << images, image, enable_ready_cb, image_info >>

\* `assert_eq!(i, 0)` and `self.image.try_borrow().expect(..)`.
x11_present_image_panics(i) == i # 0 \/ borrowed[0]

\* Mutant: the `Ref` taken by `try_borrow()` is never released.
x11_present_image_keeps_borrow(i) ==
    IF x11_present_image_panics(i)
    THEN /\ ret' = RetPanic
         /\ UNCHANGED << images, image, borrowed, enable_ready_cb, image_info >>
    ELSE /\ ret' = RetUnit
         /\ borrowed' = [borrowed EXCEPT ![0] = TRUE]
         /\ UNCHANGED << images, image, enable_ready_cb, image_info >>

x11_present_image(i) ==
    /\ ret' = IF x11_present_image_panics(i) THEN RetPanic ELSE RetUnit
    /\ UNCHANGED << images, image, borrowed, enable_ready_cb, image_info >>

(***************************************************************************)
(* cgl.rs                                                                  *)
(***************************************************************************)
cgl_supported_formats == {"Argb8888", "Xrgb8888"}

\* The assertions, the overflow checks and `self.image.borrow_mut()`.
cgl_update_surface_panics(extent, format) ==
    \/ extent[1] = 0
    \/ extent[2] = 0
    \/ extent[1] > i32_max
    \/ extent[2] > i32_max
    \/ ~is_some(size_of(extent))
    \/ borrowed[0]

cgl_update_surface(extent, format) ==
    IF cgl_update_surface_panics(extent, format)
    THEN /\ ret' = RetPanic
         /\ UNCHANGED << images, image, borrowed, enable_ready_cb, image_info >>
    ELSE /\ image' = Buffer_resize(image, unwrap(size_of(extent)))
         /\ image_info' = ImageInfo(extent, unwrap(stride_of(extent)), format)
         /\ ret' = RetUnit
         /\ UNCHANGED << images, borrowed, enable_ready_cb >>

cgl_poll_next_image ==
    /\ ret' = RetSome(0)
    /\ UNCHANGED << images, image, borrowed, enable_ready_cb, image_info >>

\* `assert_eq!(i, 0)` and `self.image.borrow_mut()`.
cgl_lock_image_panics(i) == i # 0 \/ borrowed[0]

cgl_lock_image(i) ==
    IF cgl_lock_image_panics(i)
    THEN /\ ret' = RetPanic
         /\ UNCHANGED << images, image, borrowed, enable_ready_cb, image_info >>
    ELSE /\ borrowed' = [borrowed EXCEPT ![0] = TRUE]
         /\ ret' = RetView(image)
         /\ UNCHANGED << images, image, enable_ready_cb, image_info >>

\* `assert_eq!(i, 0)` and `self.image.try_borrow().expect(..)`.
cgl_present_image_panics(i) == i # 0 \/ borrowed[0]

cgl_present_image(i) ==
    /\ ret' = IF cgl_present_image_panics(i) THEN RetPanic ELSE RetUnit
    /\ UNCHANGED << images, image, borrowed, enable_ready_cb, image_info >>

(***************************************************************************)
(* windows.rs                                                              *)
(***************************************************************************)
win_supported_formats == {"Argb8888"}

\* Mutant: the two `assert_ne!(extent[_], 0)` are missing.
win_update_surface_panics_no_zero(extent, format) ==
    \/ extent[1] > i32_max
    \/ extent[2] > i32_max
    \/ borrowed[0]

\* The assertions and `self.image.borrow_mut()`.
win_update_surface_panics(extent, format) ==
    \/ extent[1] = 0
    \/ extent[2] = 0
    \/ extent[1] > i32_max
    \/ extent[2] > i32_max
    \/ borrowed[0]

\* `wrap` tells whether the build wraps on arithmetic overflow (release) or
\* panics (debug, overflow checks on).
win_update_surface(extent, format, wrap) ==
    LET prod == extent[1] * extent[2]
        len == (prod % (2 ^ WordBits)) * 4
        stride == extent[1] * 4
    IN  IF \/ win_update_surface_panics(extent, format)
           \/ (~wrap /\ (prod > usize_max \/ len > usize_max))
        THEN /\ ret' = RetPanic
             /\ UNCHANGED << images, image, borrowed, enable_ready_cb, image_info >>
        ELSE /\ image' = len % (2 ^ WordBits)
             /\ IF ~wrap /\ stride > usize_max
                THEN ret' = RetPanic /\ UNCHANGED image_info
                ELSE /\ image_info' = ImageInfo(extent, stride % (2 ^ WordBits), format)
                     /\ ret' = RetUnit
             /\ UNCHANGED << images, borrowed, enable_ready_cb >>

win_wait_next_image ==
    /\ ret' = RetSome(0)
    /\ UNCHANGED << images, image, borrowed, enable_ready_cb, image_info >>

\* `assert_eq!(i, 0)` and `self.image.borrow_mut()`.
win_lock_image_panics(i) == i # 0 \/ borrowed[0]

win_lock_image(i) ==
    IF win_lock_image_panics(i)
    THEN /\ ret' = RetPanic
         /\ UNCHANGED << images, image, borrowed, enable_ready_cb, image_info >>
    ELSE /\ borrowed' = [borrowed EXCEPT ![0] = TRUE]
         /\ ret' = RetView(image)
         /\ UNCHANGED << images, image, enable_ready_cb, image_info >>

\* `assert_eq!(i, 0)`, `try_borrow().expect(..)` and the assertion on the format.
win_present_image_panics(i) ==
    \/ i # 0
    \/ borrowed[0]
    \/ image_info.format # "Argb8888"

win_present_image(i) ==
    /\ ret' = IF win_present_image_panics(i) THEN RetPanic ELSE RetUnit
    /\ UNCHANGED << images, image, borrowed, enable_ready_cb, image_info >>

(***************************************************************************)
(* lib.rs: the operations of `Surface`, dispatched to the backend, and the *)
(* events delivered to it.                                                 *)
(***************************************************************************)
supported_formats ==
    CASE backend = "wayland" -> wl_supported_formats
      [] backend = "x11" -> x11_supported_formats
      [] backend = "cgl" -> cgl_supported_formats
      [] backend = "windows" -> win_supported_formats

update_surface(extent, format, fail_at, how, wrap) ==
    /\ CASE backend = "wayland" -> wl_update_surface(extent, format, fail_at, how)
         [] backend = "x11" -> x11_update_surface(extent, format)
         [] backend = "cgl" -> cgl_update_surface(extent, format)
         [] backend = "windows" -> win_update_surface(extent, format, wrap)
    /\ op' = "update_surface"
    /\ UNCHANGED << apart, backend, scanline_align, hist, lastPoll, pollRun >>

poll_next_image ==
    /\ CASE backend = "wayland" -> wl_poll_next_image
         [] backend = "x11" -> x11_poll_next_image
         [] backend = "cgl" -> cgl_poll_next_image
         [] backend = "windows" -> win_wait_next_image
    /\ (ret' = RetNone /\ enable_ready_cb => pendingNone < MaxNone)
    /\ (~enable_ready_cb /\ enable_ready_cb' => armCount < MaxArms)
    /\ armCount' = IF ~enable_ready_cb /\ enable_ready_cb' THEN armCount + 1 ELSE armCount
    /\ pendingNone' = IF ret' # RetNone THEN pendingNone
                      ELSE IF enable_ready_cb THEN pendingNone + 1 ELSE 1
    /\ lastPoll' = ret'
    /\ pollRun' = IF pollRun < MaxRun THEN pollRun + 1 ELSE pollRun
    /\ op' = "poll_next_image"
    /\ UNCHANGED << apart, backend, scanline_align, cbCalls >>

lock_image(i) ==
    /\ CASE backend = "wayland" -> wl_lock_image(i)
         [] backend = "x11" -> x11_lock_image(i)
         [] backend = "cgl" -> cgl_lock_image(i)
         [] backend = "windows" -> win_lock_image(i)
    /\ op' = "lock_image"
    /\ UNCHANGED << apart, backend, scanline_align, hist, lastPoll, pollRun >>

\* The view returned by `lock_image(i)` is dropped: the `RefMut` is released.
drop_view(i) ==
    /\ i \in DOMAIN borrowed
    /\ borrowed[i]
    /\ borrowed' = [borrowed EXCEPT ![i] = FALSE]
    /\ ret' = RetUnit
    /\ op' = "drop_view"
    /\ UNCHANGED << apart, backend, scanline_align, images, image, enable_ready_cb,
                    image_info, hist, lastPoll, pollRun >>

present_image(i) ==
    /\ CASE backend = "wayland" -> wl_present_image(i)
         [] backend = "x11" -> x11_present_image(i)
         [] backend = "cgl" -> cgl_present_image(i)
         [] backend = "windows" -> win_present_image(i)
    /\ lastPoll' = RetInit
    /\ pollRun' = 0
    /\ op' = "present_image"
    /\ UNCHANGED << apart, backend, scanline_align, hist >>

\* The compositor releases the `wl_buffer` of image i (Wayland only).
on_release(i) ==
    /\ backend = "wayland"
    /\ i \in DOMAIN images
    /\ images[i].presenting
    /\ wl_on_release(i)
    /\ lastPoll' = RetInit
    /\ pollRun' = 0
    /\ ret' = RetUnit
    /\ op' = "on_release"
    /\ UNCHANGED << apart, backend, scanline_align, armCount, pendingNone >>

\* Mutant: the closure reaches the state without `Fragile`.
wl_on_release_from_unchecked(i, same_thread) ==
    /\ wl_on_release(i)
    /\ ret' = RetUnit

\* The `on_release` closure of image i run by some thread: `state.get()` of
\* `Fragile` panics on any thread but the one that made the closure.
wl_on_release_from(i, same_thread) ==
    IF same_thread
    THEN /\ wl_on_release(i)
         /\ ret' = RetUnit
    ELSE /\ ret' = RetPanic
         /\ UNCHANGED << images, image, borrowed, enable_ready_cb, image_info, cbCalls >>

\* The release handler of image i is invoked, on the thread of the surface or
\* on another one.
release_event(i, same_thread) ==
    /\ backend = "wayland"
    /\ i \in DOMAIN images
    /\ images[i].presenting
    /\ wl_on_release_from(i, same_thread)
    /\ lastPoll' = IF same_thread THEN RetInit ELSE lastPoll
    /\ pollRun' = IF same_thread THEN 0 ELSE pollRun
    /\ op' = "on_release"
    /\ UNCHANGED << apart, backend, scanline_align, armCount, pendingNone >>

\* The external outcomes of `update_surface` that the backend can meet.
Failures(extent, format) ==
    IF backend = "wayland" /\ ~wl_update_surface_panics(extent, format)
    THEN {<<Cardinality(DOMAIN images), "resize">>}
         \cup {<<k, "resize">> : k \in DOMAIN images}
         \cup {<<k, "new">> : k \in {j \in DOMAIN images : images[j].mem = None}}
    ELSE {<<0, "resize">>}
Wraps == IF backend = "windows" THEN BOOLEAN ELSE {FALSE}

\* No call into the compositor or the file system fails.
NoFailure == <<Cardinality(DOMAIN images), "resize">>

Next ==
    \/ \E extent \in Extents, format \in Format, wrap \in Wraps :
          update_surface(extent, format, NoFailure[1], NoFailure[2], wrap)
    \/ poll_next_image
    \/ \E i \in 0 .. MaxImages : lock_image(i)
    \/ \E i \in 0 .. MaxImages : drop_view(i)
    \/ \E i \in 0 .. MaxImages : present_image(i)
    \/ \E i \in 0 .. MaxImages : on_release(i)

Spec == Init /\ [][Next]_vars

\* The same surface when `MemPool::new` and `MemPool::resize` may fail.
NextIO ==
    \/ \E extent \in Extents, format \in Format :
          \E fail \in Failures(extent, format), wrap \in Wraps :
             update_surface(extent, format, fail[1], fail[2], wrap)
    \/ poll_next_image
    \/ \E i \in 0 .. MaxImages : lock_image(i)
    \/ \E i \in 0 .. MaxImages : drop_view(i)
    \/ \E i \in 0 .. MaxImages : present_image(i)
    \/ \E i \in 0 .. MaxImages : on_release(i)

IOSpec == Init /\ [][NextIO]_vars

\* `[width, height]` arguments that either fit on every backend or have a
\* zero element.
ZeroExtents == {<<1, 1>>, <<1, 20>>, <<0, 1>>, <<1, 0>>, <<0, 0>>}

\* The surface of an application whose extents are never out of range: the
\* only invalid extents it passes have a zero element.
NextZero ==
    \/ \E extent \in ZeroExtents, format \in Format, wrap \in Wraps :
          update_surface(extent, format, NoFailure[1], NoFailure[2], wrap)
    \/ poll_next_image
    \/ \E i \in 0 .. MaxImages : lock_image(i)
    \/ \E i \in 0 .. MaxImages : drop_view(i)
    \/ \E i \in 0 .. MaxImages : present_image(i)
    \/ \E i \in 0 .. MaxImages : on_release(i)

ZeroSpec == Init /\ [][NextZero]_vars

\* The surface made with any `Config::image_count`, on every backend.
ConfigInit == Start(TRUE, {"w1"})

NextConfig ==
    \/ \E extent \in Extents, format \in Format, wrap \in Wraps :
          update_surface(extent, format, NoFailure[1], NoFailure[2], wrap)
    \/ poll_next_image
    \/ \E i \in 0 .. MaxImages : lock_image(i)
    \/ \E i \in 0 .. MaxImages : drop_view(i)
    \/ \E i \in 0 .. MaxImages : present_image(i)
    \/ \E i \in 0 .. MaxImages : on_release(i)

ConfigSpec == ConfigInit /\ [][NextConfig]_vars

(***************************************************************************)
(* align.rs on its own: an `Align` is made from any word and `align_up` is *)
(* applied to any word.                                                    *)
(***************************************************************************)
\* Every value of `usize`.
usize == 0 .. usize_max

\* `Align::new(x)`
Align_new_call(x) ==
    /\ al_arg' = x
    /\ al_self' = Align_new(x)
    /\ al_x' = 0
    /\ al_out' = None
    /\ op' = "Align_new"
    /\ UNCHANGED << buf, life, surface, conn, notif, beside >>

\* `al_self.align_up(x)` on an `Align` that `Align::new` returned.
align_up_call(x) ==
    /\ is_some(al_self)
    /\ al_x' = x
    /\ al_out' = align_up(unwrap(al_self), x)
    /\ op' = "align_up"
    /\ UNCHANGED << al_arg, al_self, buf, life, surface, conn, notif, beside >>

\* No surface is involved: its variables keep the values of a new X11 surface.
AlignInit ==
    /\ al_arg \in usize
    /\ al_self = Align_new(al_arg)
    /\ al_x = 0
    /\ al_out = None
    /\ op = "Align_new"
    /\ BufferIdle
    /\ SwWindow_new
    /\ ContextIdle
    /\ config = [image_count |-> 1]
    /\ wnd_id = "w1"
    /\ cb = cb_idle
    /\ backend = "x11"
    /\ scanline_align = 0
    /\ images = [i \in {} |-> Image_new]
    /\ borrowed = [i \in {0} |-> FALSE]
    /\ image = image_new(backend)
    /\ enable_ready_cb = FALSE
    /\ image_info = ImageInfo_default
    /\ ret = RetInit
    /\ cbCalls = 0
    /\ armCount = 0
    /\ pendingNone = 0
    /\ lastPoll = RetInit
    /\ pollRun = 0
    /\ Alone

NextAlign ==
    \/ \E x \in usize : Align_new_call(x)
    \/ \E x \in usize : align_up_call(x)

AlignSpec == AlignInit /\ [][NextAlign]_vars

(***************************************************************************)
(* buffer.rs on its own: a `Buffer` is made, written through `deref_mut`   *)
(* and resized.                                                            *)
(***************************************************************************)
\* `Layout::align()` values given to `Buffer::from_size_align`.
BufferAligns == {1, 8}

\* A new X11 surface that nothing is done to.
SurfaceIdle ==
    /\ backend = "x11"
    /\ wnd_id = "w1"
    /\ cb = cb_idle
    /\ config = [image_count |-> 1]
    /\ scanline_align = 0
    /\ images = [i \in {} |-> Image_new]
    /\ borrowed = [i \in {0} |-> FALSE]
    /\ image = image_new(backend)
    /\ enable_ready_cb = FALSE
    /\ image_info = ImageInfo_default
    /\ ret = RetInit
    /\ cbCalls = 0
    /\ armCount = 0
    /\ pendingNone = 0
    /\ lastPoll = RetInit
    /\ pollRun = 0
    /\ Alone

\* The `Align` of that surface.
AlignIdle ==
    /\ al_arg = 1
    /\ al_self = Align_new(al_arg)
    /\ al_x = 0
    /\ al_out = None

\* `buffer.resize(new_size)` when `realloc` returns memory.  A `new_size` of
\* zero is outside the contract of `realloc`: it may return an empty block or
\* null.
Buffer_resize_call(new_size) ==
    /\ op # "handle_alloc_error"
    /\ \E p \in realloc(buffer.bytes, new_size) :
          buffer' = Buffer_resize_to(buffer, p, new_size)
    /\ resized' = [old |-> buffer.bytes, align |-> buffer.align, new_size |-> new_size]
    /\ op' = "Buffer_resize"
    /\ UNCHANGED << al, life, surface, conn, notif, beside >>

\* `buffer.resize(new_size)` when `realloc` returns null: `handle_alloc_error`
\* aborts the process.
Buffer_resize_abort(new_size) ==
    /\ op # "handle_alloc_error"
    /\ op' = "handle_alloc_error"
    /\ UNCHANGED << al, buf, life, surface, conn, notif, beside >>

\* `buffer.deref_mut()[i - 1] = v`
Buffer_deref_mut(i, v) ==
    /\ op # "handle_alloc_error"
    /\ i \in 1 .. Len(buffer.bytes)
    /\ buffer' = [buffer EXCEPT !.bytes[i] = v]
    /\ op' = "deref_mut"
    /\ UNCHANGED << resized, al, life, surface, conn, notif, beside >>

BufferInit ==
    /\ \E size \in 0 .. MaxBuf, align \in BufferAligns :
          /\ \E p \in alloc(size) : buffer = Buffer_new(p, size, align)
          /\ resized = [old |-> << >>, align |-> align, new_size |-> size]
    /\ op = "Buffer_new"
    /\ AlignIdle
    /\ SwWindow_new
    /\ ContextIdle
    /\ SurfaceIdle

NextBuffer ==
    \/ \E new_size \in 0 .. MaxBuf : Buffer_resize_call(new_size)
    \/ \E new_size \in 0 .. MaxBuf : Buffer_resize_abort(new_size)
    \/ \E i \in 1 .. MaxBuf, v \in Bytes : Buffer_deref_mut(i, v)

BufferSpec == BufferInit /\ [][NextBuffer]_vars

(***************************************************************************)
(* lib.rs: the life of a `SwWindow`, and what dropping its `Surface` does. *)
(***************************************************************************)
\* Wayland: the strong count of `Rc<State>`.  `SurfaceImpl` holds one
\* reference, and so does the `on_release` closure of every `MemPool` made by
\* `update_surface`, which lives as long as its pool.
Rc_strong_count ==
    (IF heap.Surface = "alive" THEN 1 ELSE 0)
        + Cardinality({i \in DOMAIN images : images[i].mem # None})

\* `drop(surface)`: the `SurfaceImpl` goes away.  On Wayland its state (the
\* images, their pools and `wl_buffer`s) is dropped when the last `Rc<State>`
\* goes; the other backends own their buffer directly.
Surface_drop(h) ==
    LET state_dies == backend # "wayland" \/ Rc_strong_count = 1
    IN  [h EXCEPT !.Surface = "dropped",
                  !.State = IF state_dies THEN "dropped" ELSE @]

\* Mutant: the surface is taken out of the field and forgotten, not dropped.
take_surface_forget(s, h) ==
    << [s EXCEPT !.surface = FALSE], h >>

\* `drop(self.surface.take())`
take_surface(s, h) ==
    IF s.surface THEN << [s EXCEPT !.surface = FALSE], Surface_drop(h) >>
    ELSE << s, h >>

\* The drop glue of `SwWindow`: the fields are dropped in declaration order,
\* `surface` and then `window`.
drop_glue(s, h) ==
    LET h1 == IF s.surface THEN Surface_drop(h) ELSE h
        h2 == IF s.window THEN [h1 EXCEPT !.Window = "dropped"] ELSE h1
    IN  << [s EXCEPT !.surface = FALSE, !.window = FALSE], h2 >>

\* `into_window`, first statement.  A lock view borrows the `SwWindow`, so
\* none is alive when it is consumed.
SwWindow_into_window ==
    /\ sw.pc = "live"
    /\ \A i \in DOMAIN borrowed : ~borrowed[i]
    /\ LET r == take_surface(sw, heap)
       IN  /\ sw' = [r[1] EXCEPT !.pc = "into_window"]
           /\ heap' = r[2]
    /\ op' = "into_window"
    /\ UNCHANGED << al, buf, surface, conn, notif, beside >>

\* `self.window.take().unwrap()`: the window is moved to the return value.
SwWindow_into_window_take ==
    /\ sw.pc = "into_window"
    /\ sw.window
    /\ sw' = [sw EXCEPT !.window = FALSE, !.pc = "into_window_end"]
    /\ op' = "into_window"
    /\ UNCHANGED << heap, al, buf, surface, conn, notif, beside >>

\* The end of `into_window`: `self` is dropped (`Drop::drop`, then the glue)
\* and the window is handed to the caller.
SwWindow_into_window_return ==
    /\ sw.pc = "into_window_end"
    /\ LET r1 == take_surface(sw, heap)
           r2 == drop_glue(r1[1], r1[2])
       IN  /\ sw' = [r2[1] EXCEPT !.pc = "done"]
           /\ heap' = [r2[2] EXCEPT !.Window = "returned"]
    /\ op' = "into_window"
    /\ UNCHANGED << al, buf, surface, conn, notif, beside >>

\* `Drop for SwWindow`: the body of `drop`.
SwWindow_drop ==
    /\ sw.pc = "live"
    /\ \A i \in DOMAIN borrowed : ~borrowed[i]
    /\ LET r == take_surface(sw, heap)
       IN  /\ sw' = [r[1] EXCEPT !.pc = "drop"]
           /\ heap' = r[2]
    /\ op' = "drop"
    /\ UNCHANGED << al, buf, surface, conn, notif, beside >>

\* `Drop for SwWindow`: the glue that runs after the body.
SwWindow_drop_glue ==
    /\ sw.pc = "drop"
    /\ LET r == drop_glue(sw, heap)
       IN  /\ sw' = [r[1] EXCEPT !.pc = "done"]
           /\ heap' = r[2]
    /\ op' = "drop"
    /\ UNCHANGED << al, buf, surface, conn, notif, beside >>

\* `[width, height]` arguments where the size of the image does not matter:
\* one that fits and one that does not.
SmallExtents == {<<1, 1>>, <<0, 1>>}

\* A surface that is rendered to and then dropped with its `SwWindow`.  The
\* compositor may release a buffer for as long as the state that holds the
\* release handler exists.
NextDrop ==
    \/ /\ sw.pc = "live"
       /\ \E extent \in SmallExtents, format \in Format, wrap \in Wraps :
             update_surface(extent, format, NoFailure[1], NoFailure[2], wrap)
    \/ sw.pc = "live" /\ \E i \in 0 .. MaxImages : lock_image(i)
    \/ sw.pc = "live" /\ \E i \in 0 .. MaxImages : drop_view(i)
    \/ sw.pc = "live" /\ \E i \in 0 .. MaxImages : present_image(i)
    \/ heap.State = "alive" /\ \E i \in 0 .. MaxImages : on_release(i)
    \/ SwWindow_into_window
    \/ SwWindow_into_window_take
    \/ SwWindow_into_window_return
    \/ SwWindow_drop
    \/ SwWindow_drop_glue

DropSpec == Init /\ [][NextDrop]_vars

\* The surface when `MemPool::new` and `MemPool::resize` may fail, for
\* arguments where the size of the image does not matter.
NextFail ==
    \/ \E extent \in SmallExtents, format \in Format :
          \E fail \in Failures(extent, format), wrap \in Wraps :
             update_surface(extent, format, fail[1], fail[2], wrap)
    \/ poll_next_image
    \/ \E i \in 0 .. MaxImages : lock_image(i)
    \/ \E i \in 0 .. MaxImages : drop_view(i)
    \/ \E i \in 0 .. MaxImages : present_image(i)
    \/ \E i \in 0 .. MaxImages : on_release(i)

FailSpec == Init /\ [][NextFail]_vars

\* The same, for an application that also polls for the next image before
\* it drops the surface.
NextTeardown ==
    \/ NextDrop
    \/ sw.pc = "live" /\ poll_next_image

TeardownSpec == Init /\ [][NextTeardown]_vars

(***************************************************************************)
(* unix/wayland.rs: `ContextImpl`, the handle to the display connection    *)
(* that the surfaces of a context share.                                   *)
(***************************************************************************)
\* The `wl_display`s (native connections) of the process.
Displays == {"dpy_a", "dpy_b"}

\* `ContextImpl::new(wl_dpy_ptr, builder)`: a proxy of the display, a new
\* binding of the global `wl_shm` (numbered in the order of creation) and
\* `Rc::new(builder.ready_cb)`.
ContextImpl_new(d, k) ==
    [dpy |-> d, shm |-> k, strong |-> 1, alive |-> TRUE]

\* Mutant: the clone does not count as a reference.
ContextImpl_clone_no_count(ctx) == ctx

\* `context.clone()`: the same proxies, one more reference to `ready_cb`.
ContextImpl_clone(ctx) == [ctx EXCEPT !.strong = @ + 1]

\* A `ContextImpl` value goes away: one reference less.
ContextImpl_drop(ctx) == [ctx EXCEPT !.strong = @ - 1]

\* `ContextBuilder::build` for the event loop of display d.
Context_build(d) ==
    /\ Len(ctxs) < MaxContexts
    /\ ctxs' = Append(ctxs, ContextImpl_new(d, Len(ctxs) + 1))
    /\ op' = "build"
    /\ UNCHANGED << srfs, al, buf, life, surface, notif, beside >>

\* `SurfaceImpl::new` for a window of display d with context c: the assertion
\* on the display, then `ctx: context.clone()` in the new `State`.
Surface_attach(c, d) ==
    /\ c \in 1 .. Len(ctxs)
    /\ ctxs[c].alive
    /\ Len(srfs) < MaxSurfaces
    /\ IF d # ctxs[c].dpy
       THEN /\ op' = "SurfaceImpl_new_panic"
            /\ UNCHANGED conn
       ELSE /\ ctxs' = [ctxs EXCEPT ![c] = ContextImpl_clone(@)]
            /\ srfs' = Append(srfs, [ctx |-> c, shm |-> ContextImpl_clone(ctxs[c]).shm,
                                     alive |-> TRUE])
            /\ op' = "SurfaceImpl_new"
    /\ UNCHANGED << al, buf, life, surface, notif, beside >>

\* The `State` of surface s is dropped, and the `ContextImpl` in it.
State_drop(s) ==
    /\ s \in 1 .. Len(srfs)
    /\ srfs[s].alive
    /\ srfs' = [srfs EXCEPT ![s].alive = FALSE]
    /\ ctxs' = [ctxs EXCEPT ![srfs[s].ctx] = ContextImpl_drop(@)]
    /\ op' = "drop_State"
    /\ UNCHANGED << al, buf, life, surface, notif, beside >>

\* The `Context` c is dropped by the application.
Context_drop(c) ==
    /\ c \in 1 .. Len(ctxs)
    /\ ctxs[c].alive
    /\ ctxs' = [ctxs EXCEPT ![c] = [ContextImpl_drop(@) EXCEPT !.alive = FALSE]]
    /\ op' = "drop_Context"
    /\ UNCHANGED << srfs, al, buf, life, surface, notif, beside >>

ContextInit ==
    /\ ContextIdle
    /\ op = "new"
    /\ AlignIdle
    /\ BufferIdle
    /\ SwWindow_new
    /\ SurfaceIdle

NextContext ==
    \/ \E d \in Displays : Context_build(d)
    \/ \E c \in 1 .. MaxContexts, d \in Displays : Surface_attach(c, d)
    \/ \E s \in 1 .. MaxSurfaces : State_drop(s)
    \/ \E c \in 1 .. MaxContexts : Context_drop(c)

ContextSpec == ContextInit /\ [][NextContext]_vars

\* Mutant: the callback is invoked before the handler touches the state.
wl_on_release_begin_cb_first(i) ==
    /\ cbCalls' = IF enable_ready_cb THEN cbCalls + 1 ELSE cbCalls
    /\ cb' = IF enable_ready_cb
             THEN [running |-> TRUE, arg |-> wnd_id, image |-> i]
             ELSE cb_idle
    /\ UNCHANGED << images, enable_ready_cb, image, borrowed, image_info >>

\* Mutant: the flag is one per context, so a surface armed by a poll of the
\* other one calls back as well.
wl_on_release_begin_any_armed(i) ==
    LET armed == enable_ready_cb \/ (peer # None /\ unwrap(peer).enable_ready_cb)
    IN  /\ images' = [images EXCEPT ![i].presenting = FALSE]
        /\ enable_ready_cb' = FALSE
        /\ cbCalls' = IF armed THEN cbCalls + 1 ELSE cbCalls
        /\ cb' = IF armed
                 THEN [running |-> TRUE, arg |-> wnd_id, image |-> i]
                 ELSE cb_idle
        /\ UNCHANGED << image, borrowed, image_info >>

\* The `on_release` closure of image i up to the point where `ready_cb` is
\* entered: `presenting.set(false)`, `enable_ready_cb.replace(false)` and,
\* when the flag was set, the call `(state.ctx.ready_cb)(state.wnd_id)`.
wl_on_release_begin(i) ==
    /\ images' = [images EXCEPT ![i].presenting = FALSE]
    /\ enable_ready_cb' = FALSE
    /\ cbCalls' = IF enable_ready_cb THEN cbCalls + 1 ELSE cbCalls
    /\ cb' = IF enable_ready_cb
             THEN [running |-> TRUE, arg |-> wnd_id, image |-> i]
             ELSE cb_idle
    /\ UNCHANGED << image, borrowed, image_info >>

\* The compositor releases the `wl_buffer` of image i; the handler runs up to
\* the call of `ready_cb`, which the application may answer with any
\* operation on the surface.  No event is dispatched inside the callback.
release_begin(i) ==
    /\ backend = "wayland"
    /\ i \in DOMAIN images
    /\ images[i].presenting
    /\ ~cb.running
    /\ wl_on_release_begin(i)
    /\ lastPoll' = RetInit
    /\ pollRun' = 0
    /\ ret' = RetUnit
    /\ op' = "on_release"
    /\ UNCHANGED << al, buf, life, config, conn, wnd_id, beside, backend,
                    scanline_align, armCount, pendingNone >>

\* `ready_cb` returns; the closure has nothing left to do.
ready_cb_return ==
    /\ cb.running
    /\ cb' = cb_idle
    /\ op' = "ready_cb_return"
    /\ UNCHANGED << al, buf, life, conn, wnd_id, beside, surface >>

\* The surface of a window with any id, the callback being a part of the
\* application that may use the surface.
CbInit == Start(FALSE, WindowIds)

NextCb ==
    \/ \E extent \in SmallExtents, format \in Format, wrap \in Wraps :
          update_surface(extent, format, NoFailure[1], NoFailure[2], wrap)
    \/ poll_next_image
    \/ \E i \in 0 .. MaxImages : lock_image(i)
    \/ \E i \in 0 .. MaxImages : drop_view(i)
    \/ \E i \in 0 .. MaxImages : present_image(i)
    \/ \E i \in 0 .. MaxImages : release_begin(i)
    \/ ready_cb_return

CbSpec == CbInit /\ [][NextCb]_vars

(***************************************************************************)
(* unix/wayland.rs: two surfaces made from one context.  Each `SurfaceImpl` *)
(* has its own `Rc<State>`; the operations act on the `self` they are       *)
(* called on, which is the surface held in the variables.                   *)
(***************************************************************************)
\* The fields of the `State` of `self`.
State_of_self ==
    [config |-> config, images |-> images, borrowed |-> borrowed,
     enable_ready_cb |-> enable_ready_cb, image_info |-> image_info,
     wnd_id |-> wnd_id]

\* `Config::default().image_count`
Config_default_image_count == 2

\* `SurfaceImpl::new` for the window `id` with `config.image_count = n`.
State_new(n, id) ==
    [config |-> [image_count |-> n],
     images |-> [i \in 0 .. n - 1 |-> Image_new],
     borrowed |-> [i \in 0 .. n - 1 |-> FALSE],
     enable_ready_cb |-> FALSE,
     image_info |-> ImageInfo_default,
     wnd_id |-> id]

\* `Surface::new(window, &context, config)` for a second window: the new
\* surface clones the context and shares nothing else with the first.
Surface_new_peer(n, id) ==
    /\ backend = "wayland"
    /\ peer = None
    /\ id # wnd_id
    /\ peer' = Some(State_new(n, id))
    /\ op' = "Surface_new"
    /\ UNCHANGED << al, buf, life, conn, notif, wire, ready_cb, surface >>

\* The application, or the event loop that dispatches a release, turns to
\* the other surface: the calls that follow have the other `SurfaceImpl` as
\* `self`.
turn_to_peer ==
    /\ peer # None
    /\ peer' = Some(State_of_self)
    /\ config' = unwrap(peer).config
    /\ images' = unwrap(peer).images
    /\ borrowed' = unwrap(peer).borrowed
    /\ enable_ready_cb' = unwrap(peer).enable_ready_cb
    /\ image_info' = unwrap(peer).image_info
    /\ wnd_id' = unwrap(peer).wnd_id
    /\ op' = "turn_to_peer"
    /\ UNCHANGED << al, buf, life, conn, cb, wire, ready_cb, backend, scanline_align,
                    image, ret, hist, lastPoll, pollRun >>

\* `poll_next_image` of `self`.  The history of the polls of one surface is
\* not kept when there are two.
poll_of_self ==
    /\ backend = "wayland"
    /\ wl_poll_next_image
    /\ op' = "poll_next_image"
    /\ UNCHANGED << apart, backend, scanline_align, hist, lastPoll, pollRun >>

\* A release event for image i of `self`; the number of calls of `ready_cb`
\* that are followed is bounded.
release_of_self(i) ==
    /\ enable_ready_cb => cbCalls < MaxArms
    /\ release_begin(i)

\* Two Wayland surfaces made with the default `Config`.
PairInit ==
    /\ Init
    /\ backend = "wayland"
    /\ config.image_count = Config_default_image_count

NextPair ==
    \/ \E id \in WindowIds : Surface_new_peer(Config_default_image_count, id)
    \/ turn_to_peer
    \/ \E extent \in SmallExtents, wrap \in Wraps :
          update_surface(extent, "Argb8888", NoFailure[1], NoFailure[2], wrap)
    \/ poll_of_self
    \/ \E i \in 0 .. MaxImages : lock_image(i)
    \/ \E i \in 0 .. MaxImages : drop_view(i)
    \/ \E i \in 0 .. MaxImages : present_image(i)
    \/ \E i \in 0 .. MaxImages : release_of_self(i)
    \/ ready_cb_return

PairSpec == PairInit /\ [][NextPair]_vars

\* The surface when the release handler may be invoked from any thread.
NextThread ==
    \/ \E extent \in SmallExtents, format \in Format, wrap \in Wraps :
          update_surface(extent, format, NoFailure[1], NoFailure[2], wrap)
    \/ poll_next_image
    \/ \E i \in 0 .. MaxImages : lock_image(i)
    \/ \E i \in 0 .. MaxImages : drop_view(i)
    \/ \E i \in 0 .. MaxImages : present_image(i)
    \/ \E i \in 0 .. MaxImages, same_thread \in BOOLEAN : release_event(i, same_thread)

ThreadSpec == Init /\ [][NextThread]_vars

(***************************************************************************)
(* unix/wayland.rs: `present_image` as the compositor sees it.             *)
(***************************************************************************)
\* Mutant: the buffer of the last frame is destroyed before the new one is
\* made and attached.
wl_present_requests_destroy_first(i) ==
    (IF unwrap(images[i].mem).buffer # None THEN <<"destroy">> ELSE << >>)
        \o <<"create_buffer", "attach", "damage_buffer", "commit">>

\* The requests that `present_image(i)` sends, in the order of its
\* statements: `mem_pool.buffer(..)`, `attach`, `damage_buffer`, `commit` and,
\* when `buffer_cell.take()` is `Some`, `old_buffer.destroy()`.
wl_present_requests(i) ==
    <<"create_buffer", "attach", "damage_buffer", "commit">>
        \o (IF unwrap(images[i].mem).buffer # None THEN <<"destroy">> ELSE << >>)

\* `present_image(i)` and what it does to the `wl_buffer`s of image i: one is
\* made, the one in `buffer_cell` (if any) is destroyed, and the compositor
\* holds the new one from the commit on.  No event is processed during the
\* call, so the old buffer is in use at its `destroy` iff it was at the start.
present_on_wire(i) ==
    /\ backend = "wayland"
    /\ wl_present_image(i)
    /\ wire' = IF wl_present_image_panics(i) THEN wire
               ELSE LET old == unwrap(images[i].mem).buffer
                        destroyed == IF "destroy" \in
                                          {wl_present_requests(i)[k] :
                                              k \in DOMAIN wl_present_requests(i)}
                                     THEN 1 ELSE 0
                    IN  [live |-> [wire.live EXCEPT ![i] = @ + 1 - destroyed],
                         held |-> [wire.held EXCEPT ![i] = TRUE],
                         reqs |-> wl_present_requests(i),
                         destroyed_held |-> destroyed = 1 /\ wire.held[i]]
    /\ lastPoll' = RetInit
    /\ pollRun' = 0
    /\ op' = "present_image"
    /\ UNCHANGED << al, buf, life, config, conn, notif, peer, ready_cb, backend,
                    scanline_align, hist >>

\* The compositor releases the `wl_buffer` of image i that it holds, and the
\* release handler of the image runs.
release_on_wire(i) ==
    /\ backend = "wayland"
    /\ i \in DOMAIN images
    /\ wire.held[i]
    /\ wl_on_release(i)
    /\ wire' = [wire EXCEPT !.held[i] = FALSE]
    /\ lastPoll' = RetInit
    /\ pollRun' = 0
    /\ ret' = RetUnit
    /\ op' = "on_release"
    /\ UNCHANGED << al, buf, life, config, conn, notif, peer, ready_cb, backend,
                    scanline_align, armCount, pendingNone >>

\* A Wayland surface and its compositor.
WireInit == Init /\ backend = "wayland"

NextWire ==
    \/ \E extent \in SmallExtents, format \in Format, wrap \in Wraps :
          update_surface(extent, format, NoFailure[1], NoFailure[2], wrap)
    \/ poll_next_image
    \/ \E i \in 0 .. MaxImages : lock_image(i)
    \/ \E i \in 0 .. MaxImages : drop_view(i)
    \/ \E i \in 0 .. MaxImages : present_on_wire(i)
    \/ \E i \in 0 .. MaxImages : release_on_wire(i)

WireSpec == WireInit /\ [][NextWire]_vars

\* The compositor eventually releases every buffer it was given.
LiveSpec == Spec /\ \A i \in 0 .. MaxImages : WF_vars(on_release(i))

(***************************************************************************)
(* The states of a slot.                                                   *)
(***************************************************************************)
\* A lock view on image i is alive.
Locked(i) == i \in DOMAIN borrowed /\ borrowed[i]

\* Image i was submitted and its release has not been handled.
Presenting(i) == backend = "wayland" /\ i \in DOMAIN images /\ images[i].presenting

\* No `update_surface` has given image i its storage yet.
Uninitialized(i) ==
    IF backend = "wayland" THEN images[i].mem = None
    ELSE image_info = ImageInfo_default

SlotFree(i) == ~Uninitialized(i) /\ ~Locked(i) /\ ~Presenting(i)

SomeLocked == \E i \in DOMAIN borrowed : borrowed[i]

(***************************************************************************)
(* Properties.                                                             *)
(***************************************************************************)
\* C1: no slot is ever Locked (a lock view on it is alive) and Presenting
\* (submitted and not yet released) at the same time.
C1_NeverLockedAndPresenting ==
    \A i \in Slots : ~(Locked(i) /\ Presenting(i))

\* One image is locked while another one is being presented.
C1_Witness ==
    \E i \in Slots, j \in Slots : i # j /\ Locked(i) /\ Presenting(j)

\* C2: an index returned by poll_next_image is never the index of an image
\* that was presented and has not been released since.
C2_PresentedNotReturned ==
    (op = "poll_next_image" /\ ret.tag = "Some") => ~Presenting(ret.val)

\* Image 0 is being presented and the poll returned image 1 instead.
C2_Witness ==
    op = "poll_next_image" /\ ret = RetSome(1) /\ Presenting(0)

\* C3: a poll that follows another poll with no present_image call and no
\* release event in between returns what that poll returned.
C3_RepeatedPollSame ==
    [][(op' = "poll_next_image" /\ pollRun >= 1) => ret' = lastPoll]_vars

\* The second of two such polls returned an image although it is locked.
C3_Witness ==
    /\ op = "poll_next_image"
    /\ pollRun >= 2
    /\ ret.tag = "Some"
    /\ Locked(ret.val)

\* C4: whenever the ready callback is invoked it is invoked once, after the
\* k >= 1 polls that returned None since the notifier was armed, and the
\* number of invocations then equals the number of times it was armed.
C4_OneCallForKPolls ==
    [][cbCalls' # cbCalls =>
          /\ cbCalls' = cbCalls + 1
          /\ pendingNone >= 1
          /\ cbCalls' = armCount
          /\ ~enable_ready_cb']_vars

\* Two polls returned None and the release that followed called back once.
C4_Witness ==
    /\ op = "on_release"
    /\ pendingNone >= 2
    /\ cbCalls = 1
    /\ armCount = 1
    /\ ~enable_ready_cb

\* C5: the ready callback has never been invoked more often than the
\* notifier went from disarmed to armed.
C5_CallsAtMostArms == cbCalls <= armCount

\* Every image of a surface with several images was released after the only
\* arming, and the callback ran once.
C5_Witness ==
    /\ backend = "wayland"
    /\ num_images >= 2
    /\ armCount = 1
    /\ cbCalls = 1
    /\ \A i \in Slots : images[i].mem # None /\ ~Presenting(i)

\* C6: once poll_next_image returned None on a surface with at least one
\* image, the ready callback is eventually invoked (the compositor releasing
\* the buffers it holds).
C6_NoLostWakeup ==
    \A k \in 0 .. MaxArms :
        (enable_ready_cb /\ num_images >= 1 /\ cbCalls = k) ~> (cbCalls > k)

\* The only image of a surface was released after a poll found it busy.
C6_Witness ==
    /\ op = "on_release"
    /\ num_images = 1
    /\ armCount >= 1
    /\ cbCalls = armCount

\* C7: poll_next_image never returns the index of an Uninitialized slot.
C7_UninitializedNeverAcquired ==
    (op = "poll_next_image" /\ ret.tag = "Some") => ~Uninitialized(ret.val)

\* C8: update_surface called while an image is locked fails and changes
\* neither image_info, nor any image's storage or Presenting flag, nor the
\* armed bit; image_info does not change while a lock view is alive.
C8_LockedUpdateFails ==
    [][SomeLocked =>
          /\ image_info' = image_info
          /\ op' = "update_surface" =>
                /\ ret' = RetPanic
                /\ UNCHANGED << images, image, borrowed, enable_ready_cb >>]_vars

\* update_surface failed on a configured surface with a locked image.
C8_Witness ==
    /\ op = "update_surface"
    /\ ret = RetPanic
    /\ SomeLocked
    /\ image_info # ImageInfo_default

\* C9: a format that supported_formats() does not yield is never installed
\* in image_info.
C9_UnsupportedNeverInstalled == image_info.format \in supported_formats

\* C10: lock_image(i) returns a view only when slot i is Free (initialized,
\* not locked, not Presenting).
C10_LockOnlyWhenFree ==
    [][\A i \in DOMAIN borrowed : (~borrowed[i] /\ borrowed'[i]) => SlotFree(i)]_vars

C12_PresentOnlyWhenFree ==
    [][op' = "present_image" =>
          IF ret' = RetUnit
          THEN \E i \in Slots :
                  /\ SlotFree(i)
                  /\ backend = "wayland" =>
                        /\ images'[i].presenting
                        /\ \A j \in Slots \ {i} : images'[j] = images[j]
          ELSE UNCHANGED << images, image, borrowed, enable_ready_cb, image_info >>]_vars

\* present_image(0) has just returned on a backend without completion events.
PresentedSync == backend # "wayland" /\ op = "present_image" /\ ret = RetUnit

\* C13: on X11, CGL and Windows, right after present_image(0) returns, a
\* further present_image(0) returns too, the next poll returns Some(0) and
\* lock_image(0) returns a view; no event is needed in between.
C13_SyncFreeAfterPresent ==
    [][PresentedSync =>
          /\ present_image(0) => ret' = RetUnit
          /\ poll_next_image => ret' = RetSome(0)
          /\ lock_image(0) => ret'.tag = "View"]_vars

\* A configured single-buffer surface has just presented its image.
C13_Witness == PresentedSync /\ image_info # ImageInfo_default

\* C14: after a successful update_surface the stride of image_info() is the
\* lowest multiple of the scanline alignment that is at least 4 * width.
C14_StrideIsAlignedUp ==
    (op = "update_surface" /\ ret = RetUnit) =>
        LET a == scanline_align + 1
            w == image_info.extent[1]
        IN  /\ image_info.stride >= 4 * w
            /\ image_info.stride % a = 0
            /\ image_info.stride - a < 4 * w

\* C15: on a configured surface the view returned by lock_image covers
\* exactly image_info().stride * image_info().extent[1] bytes.
C15_ViewIsStrideTimesHeight ==
    (op = "lock_image" /\ ret.tag = "View" /\ image_info # ImageInfo_default) =>
        ret.val = image_info.stride * image_info.extent[2]

\* C16: a successful update_surface never leaves a slot whose storage is
\* smaller than stride * height of the installed image_info: an overflow in
\* the size computation makes it fail instead of wrapping.
C16_StorageCoversImage ==
    (op = "update_surface" /\ ret = RetUnit) =>
        \A i \in Slots :
            LET storage == IF backend = "wayland" THEN unwrap(images[i].mem).pool
                           ELSE image
            IN  storage >= image_info.stride * image_info.extent[2]

\* C17: update_surface with a zero element in the extent panics, and leaves
\* image_info(), the storage and the state of every slot as they were.
C17_ZeroExtentPanics ==
    [][\A extent \in {e \in ZeroExtents : e[1] = 0 \/ e[2] = 0},
          format \in Format, wrap \in BOOLEAN :
          update_surface(extent, format, NoFailure[1], NoFailure[2], wrap) =>
              /\ ret' = RetPanic
              /\ UNCHANGED << images, image, borrowed, enable_ready_cb, image_info >>]_vars

\* update_surface panicked on a configured surface with no live view: under
\* ZeroSpec only a zero element in the extent does that.
C17_Witness ==
    /\ op = "update_surface"
    /\ ret = RetPanic
    /\ ~SomeLocked
    /\ image_info # ImageInfo_default

\* C18: align_up(x) is the smallest multiple of the alignment that is at
\* least x when that multiple fits in a word, and None when it does not; the
\* result is never a wrapped value.
C18_AlignUpIsLeastMultiple ==
    op = "align_up" =>
        LET a == unwrap(al_self) + 1
            m == CHOOSE m \in al_x .. al_x + a - 1 : m % a = 0
        IN  al_out = IF m <= usize_max THEN Some(m) ELSE None

\* align_up returned None for an x below the maximum: the smallest multiple
\* does not fit.
C18_Witness == op = "align_up" /\ al_out = None /\ al_x < usize_max

\* C19: Align::new(x) succeeds exactly when x is a power of two >= 1.
C19_NewIffPowerOfTwo ==
    is_some(al_self) <=> \E k \in 0 .. WordBits - 1 : al_arg = 2 ^ k

\* Align::new was given the maximum word value and failed.
C19_Witness == op = "Align_new" /\ al_arg = usize_max /\ al_self = None

\* C20: align_up is idempotent: when align_up(x) = Some(y), align_up(y) = Some(y).
C20_AlignUpIdempotent ==
    (op = "align_up" /\ is_some(al_out)) =>
        align_up(unwrap(al_self), unwrap(al_out)) = al_out

\* align_up returned a value above its argument.
C20_Witness == op = "align_up" /\ is_some(al_out) /\ unwrap(al_out) > al_x

\* C21: a new Buffer is all zero; after a resize its length is the requested
\* size, the bytes it had up to the lesser of the two sizes are as they were,
\* every added byte is zero and its alignment is as before.
C21_ResizeKeepsAndZeroFills ==
    /\ op = "Buffer_new" =>
          /\ Len(buffer.bytes) = resized.new_size
          /\ \A i \in 1 .. Len(buffer.bytes) : buffer.bytes[i] = 0
    /\ op = "Buffer_resize" =>
          /\ Len(buffer.bytes) = resized.new_size
          /\ \A i \in 1 .. Len(buffer.bytes) :
                buffer.bytes[i] = IF i <= Len(resized.old) THEN resized.old[i] ELSE 0
          /\ buffer.align = resized.align

\* A buffer holding a non-zero byte has just been grown.
C21_Witness ==
    /\ op = "Buffer_resize"
    /\ Len(resized.old) < Len(buffer.bytes)
    /\ \E i \in 1 .. Len(resized.old) : resized.old[i] # 0

\* C22: the window of a SwWindow is destroyed, taken out or handed back only
\* after its surface has been destroyed.
C22_SurfaceDroppedBeforeWindow ==
    (heap.Window # "alive" \/ ~sw.window) => heap.Surface = "dropped"

\* into_window has handed back the window of a surface that was configured.
C22_Witness == heap.Window = "returned" /\ image_info # ImageInfo_default

\* C23: once the Surface is dropped its state is dropped too: the storage of
\* every slot is released and no wl_buffer remains.
C23_DropDestroysPool ==
    heap.Surface = "dropped" =>
        /\ heap.State = "dropped"
        /\ backend = "wayland" => \A i \in DOMAIN images : images[i].mem = None

\* C24 as stated: num_images() is the configured image_count on every backend.
C24_NumImagesIsConfigured == num_images = config.image_count

\* C24, amended: num_images() is the configured image_count on Wayland and 1
\* on the single-buffer backends; no operation or event changes it, and every
\* index that a poll returns is below it.
C24_NumImagesFixed ==
    /\ [](num_images = IF backend = "wayland" THEN config.image_count ELSE 1)
    /\ [][num_images' = num_images]_vars
    /\ []((op = "poll_next_image" /\ ret.tag = "Some") => ret.val < num_images)

\* A single-buffer surface configured with two images has returned index 0.
C24_Witness ==
    /\ backend # "wayland"
    /\ config.image_count = 2
    /\ op = "poll_next_image"
    /\ ret = RetSome(0)

\* C25: on Windows the index that wait_next_image returns is that of a slot
\* that is Free when it returns: configured, with no live view, not Presenting.
C25_WaitReturnsFreeSlot ==
    (backend = "windows" /\ op = "poll_next_image" /\ ret.tag = "Some") =>
        SlotFree(ret.val)

C29_ReleaseOnlyOnOwnerThread ==
    [][/\ \A i \in 0 .. MaxImages :
             release_event(i, FALSE) =>
                 /\ ret' = RetPanic
                 /\ UNCHANGED << images, borrowed, enable_ready_cb, cbCalls >>
       /\ images' # images =>
             \/ op' \in {"update_surface", "present_image"}
             \/ op' = "on_release" /\ ret' = RetUnit]_vars

\* The handler was invoked from another thread while the notifier was armed:
\* the image is still Presenting and no callback was made.
C29_Witness ==
    /\ op = "on_release"
    /\ ret = RetPanic
    /\ enable_ready_cb
    /\ cbCalls = 0
    /\ \E i \in DOMAIN images : images[i].presenting

\* C30: when the release handler enters the ready callback, the released
\* image is already not Presenting and the armed bit already clear, and the
\* argument is the id of the window of the surface; so a poll made first
\* thing in the callback returns an index, a poll that returns None inside
\* the callback arms the notifier, and the return of the callback keeps it
\* armed.
C30_CallbackSeesReleasedSlot ==
    /\ []((op = "on_release" /\ cb.running) =>
             /\ ~images[cb.image].presenting
             /\ ~enable_ready_cb
             /\ cb.arg = wnd_id)
    /\ [][(op = "on_release" /\ cb.running /\ poll_next_image) => ret'.tag = "Some"]_vars
    /\ [][(cb.running /\ poll_next_image /\ ret' = RetNone) => enable_ready_cb']_vars
    /\ [][ready_cb_return =>
             /\ enable_ready_cb' = enable_ready_cb
             /\ images' = images]_vars

\* Inside the callback of window w2 a poll has returned None and armed the
\* notifier again.
C30_Witness ==
    /\ cb.running
    /\ cb.arg = "w2"
    /\ op = "poll_next_image"
    /\ ret = RetNone
    /\ enable_ready_cb

\* C31: on a Wayland surface, whenever the ready notifier is armed every image
\* is being presented (a poll would return None): the notifier is never left
\* armed while some image is available.
C31_ArmedOnlyWhenAllPresenting ==
    (backend = "wayland" /\ enable_ready_cb) =>
        /\ \A i \in DOMAIN images : images[i].presenting
        /\ wl_position = None

\* A poll of a surface with two images found both of them being presented
\* and armed the notifier.
C31_Witness ==
    /\ backend = "wayland"
    /\ num_images = 2
    /\ enable_ready_cb
    /\ cbCalls = 0
    /\ op = "poll_next_image"
    /\ ret = RetNone

\* C32: every Wayland image is always in one of the valid states (no storage,
\* not presenting), (storage, no wl_buffer, not presenting), (storage,
\* wl_buffer, presenting) or (storage, wl_buffer, not presenting): an image
\* is never being presented without both storage and a wl_buffer, and an
\* image that has storage never goes back to having none.
C32_ImageStatesValid ==
    /\ [](\A i \in DOMAIN images :
             \/ images[i].mem = None /\ ~images[i].presenting
             \/ /\ images[i].mem # None
                /\ unwrap(images[i].mem).buffer = None
                /\ ~images[i].presenting
             \/ /\ images[i].mem # None
                /\ unwrap(images[i].mem).buffer # None)
    /\ [][\A i \in DOMAIN images : images[i].mem # None => images'[i].mem # None]_vars

\* Three of the four states at once: after a failed update_surface image 0
\* has a released wl_buffer and image 1 never got storage; image 0 went
\* through the other two states before.
C32_Witness ==
    /\ backend = "wayland"
    /\ num_images = 2
    /\ op = "update_surface"
    /\ ret = RetPanic
    /\ images[0].mem # None
    /\ unwrap(images[0].mem).buffer # None
    /\ ~images[0].presenting
    /\ images[1].mem = None

\* C33: on Wayland, poll_next_image returns the lowest index among the images
\* that are not being presented, and None exactly when every image is being
\* presented; taking or dropping a lock view never changes what
\* poll_next_image returns, and a locked image is still reported.
C33_PollLowestNotPresenting ==
    /\ [][(backend = "wayland" /\ op' = "poll_next_image") =>
             /\ ret'.tag \in {"Some", "None"}
             /\ ret'.tag = "Some" =>
                   /\ ret'.val \in DOMAIN images
                   /\ ~images[ret'.val].presenting
                   /\ \A j \in DOMAIN images : j < ret'.val => images[j].presenting
             /\ ret'.tag = "None" <=> \A j \in DOMAIN images : images[j].presenting]_vars
    /\ [][(backend = "wayland" /\ op' \in {"lock_image", "drop_view"}) =>
             /\ wl_position' = wl_position
             /\ \A j \in DOMAIN images : images'[j].presenting = images[j].presenting]_vars

\* Both images are free and image 0 is locked: the poll still returned 0.
C33_Witness ==
    /\ backend = "wayland"
    /\ num_images = 2
    /\ op = "poll_next_image"
    /\ ret = RetSome(0)
    /\ Locked(0)
    /\ ~Locked(1)
    /\ ~Presenting(1)

\* C34: on Wayland, update_surface may be called while images are being
\* presented and changes neither any image's Presenting flag nor the armed
\* bit, so a pending arm survives it: the release that follows still calls
\* the ready callback, and an image stops being presented only by a release
\* event, which frees one image.
C34_UpdateKeepsPresentingAndArm ==
    /\ [][(backend = "wayland" /\ op' = "update_surface") =>
             /\ enable_ready_cb' = enable_ready_cb
             /\ cbCalls' = cbCalls
             /\ \A i \in DOMAIN images : images'[i].presenting = images[i].presenting]_vars
    /\ [][(backend = "wayland" /\ op' = "on_release" /\ enable_ready_cb) =>
             cbCalls' = cbCalls + 1]_vars
    /\ [][(backend = "wayland"
             /\ \E i \in DOMAIN images : images[i].presenting /\ ~images'[i].presenting) =>
             /\ op' = "on_release"
             /\ Cardinality({i \in DOMAIN images :
                                images[i].presenting /\ ~images'[i].presenting}) = 1]_vars

\* update_surface succeeded on a configured surface whose two images are
\* being presented, after a poll that armed the notifier.
C34_Witness ==
    /\ backend = "wayland"
    /\ num_images = 2
    /\ op = "update_surface"
    /\ ret = RetUnit
    /\ enable_ready_cb
    /\ pendingNone >= 1
    /\ \A i \in Slots : Presenting(i)

\* C35: update_surface is all-or-nothing: when it fails at any point, the
\* storage of every image and image_info are what they were before the call,
\* so image_info and the storage size of every image always describe the
\* same geometry.
C35_UpdateAllOrNothing ==
    /\ [][(op' = "update_surface" /\ ret' = RetPanic) =>
             /\ image_info' = image_info
             /\ images' = images
             /\ image' = image]_vars
    /\ [](backend = "wayland" =>
             \A i \in DOMAIN images :
                 images[i].mem # None =>
                     unwrap(images[i].mem).pool = image_info.stride * image_info.extent[2])

\* C36: on Wayland, present_image never destroys a wl_buffer that the
\* compositor may still be using: the previous wl_buffer of the image is
\* destroyed only after its release event was processed and only after the
\* new buffer was attached and committed; between calls every image has at
\* most one wl_buffer, the one in its buffer cell.
C36_OldBufferDestroyedWhenFree ==
    /\ ~wire.destroyed_held
    /\ \A k \in DOMAIN wire.reqs :
          wire.reqs[k] = "destroy" =>
              \E a \in 1 .. k - 1, c \in 1 .. k - 1 :
                  a < c /\ wire.reqs[a] = "attach" /\ wire.reqs[c] = "commit"
    /\ \A i \in DOMAIN images :
          /\ wire.live[i] <= 1
          /\ wire.live[i] = 1 <=>
                (images[i].mem # None /\ unwrap(images[i].mem).buffer # None)
          /\ wire.held[i] => wire.live[i] = 1

\* Image 0 was presented for the second time, which destroyed the buffer of
\* its first frame, while the compositor still holds the buffer of image 1.
C36_Witness ==
    /\ num_images = 2
    /\ op = "present_image"
    /\ ret = RetUnit
    /\ wire.reqs[Len(wire.reqs)] = "destroy"
    /\ wire.held[0]
    /\ wire.held[1]

\* C37: after the surface was dropped the ready callback is never invoked
\* again, even when the notifier was armed at the drop and a release event
\* for an image that was being presented arrives later.
C37_NoCallbackAfterDrop ==
    [][(sw.pc = "done" /\ heap.Surface = "dropped") => cbCalls' = cbCalls]_vars

\* C39: on the backends whose context is NullContextImpl (CGL, Windows) the
\* function passed to with_ready_cb is discarded, neither the builder nor the
\* context holds it, and it is never invoked; image acquisition never
\* reports that no image is available: it always returns Some(0).
C39_NullContextNeverCalls ==
    backend \in {"cgl", "windows"} =>
        /\ ready_cb.builder # "app"
        /\ ready_cb.ctx = None
        /\ cbCalls = 0
        /\ ~enable_ready_cb
        /\ op = "poll_next_image" => ret = RetSome(0)

\* On Windows the image was acquired again while a view of it was alive.
C39_Witness ==
    /\ backend = "windows"
    /\ op = "poll_next_image"
    /\ ret = RetSome(0)
    /\ pollRun >= 2
    /\ Locked(0)

\* C38: surfaces made from the same context are independent: an
\* update_surface, poll, lock, view drop, present or release event on one
\* surface changes no image, image_info or armed bit of the other, and a
\* release on a surface calls the shared ready callback only with the
\* WindowId of that surface and only when that surface was armed.
C38_SurfacesIndependent ==
    /\ [][(peer # None /\ op' \in {"update_surface", "poll_next_image", "lock_image",
                                      "drop_view", "present_image", "on_release",
                                      "ready_cb_return"}) =>
             peer' = peer]_vars
    /\ [][(peer # None /\ ~cb.running /\ cb'.running) =>
             /\ op' = "on_release"
             /\ enable_ready_cb
             /\ ~enable_ready_cb'
             /\ cb'.arg = wnd_id
             /\ cb'.arg # unwrap(peer).wnd_id
             /\ unwrap(peer').enable_ready_cb = unwrap(peer).enable_ready_cb]_vars

\* An image of one surface was released while only the other surface was
\* armed, with both of its images being presented: nothing was called.
C38_Witness ==
    /\ peer # None
    /\ op = "on_release"
    /\ ~cb.running
    /\ cbCalls = 0
    /\ ~enable_ready_cb
    /\ unwrap(peer).enable_ready_cb
    /\ \A i \in DOMAIN unwrap(peer).images : unwrap(peer).images[i].presenting

====
